---------------------------- MODULE Spec2Model ----------------------------
(***************************************************************************)
(* Model of app/schemas/user_schemas.py: the pydantic (v2) shapes UserBase,*)
(* UserCreate, UserUpdate, UserResponse and LoginRequest, and what         *)
(* constructing each of them from a raw keyword mapping does.              *)
(*                                                                         *)
(* One behaviour is one construction: Init is a submitted raw mapping for  *)
(* one shape, the Construct* action of that shape runs the whole of the    *)
(* construction (the root pre-validator, then every field in declaration   *)
(* order: pre-validators, the type and its constraints, the validators),   *)
(* and leaves either the validated value or the list of errors.            *)
(*                                                                         *)
(* Strings are sequences of characters.  A character is one of a few       *)
(* representatives of the classes the code distinguishes (str.isupper,     *)
(* str.islower, str.isdigit, the special-character string, the regex class *)
(* \w).  URLs and e-mail addresses are sequences of tokens: a token stands *)
(* for the run of characters it spells, so that the position of ':', '/'   *)
(* and '@' is what the parsers see.                                        *)
(***************************************************************************)
EXTENDS Integers, Sequences, FiniteSets, TLC

VARIABLES shape, raw, pc, ok, errors, value

vars == <<shape, raw, pc, ok, errors, value>>

-----------------------------------------------------------------------------
(* Bounds of the enumerated inputs.                                        *)

MaxCore == 4
MaxPad == 5
MaxNickLen == 4
MaxUrlLen == 5
MaxEmailLen == 3
MaxItems == 2
MaxCount == 2

(* Program constants.                                                      *)

MinPasswordLength == 8
NicknameMinLength == 3

-----------------------------------------------------------------------------
(* Raw values: a key of the mapping is absent, or holds None or a string.  *)

Absent == [kind |-> "absent", s |-> <<>>]
None == [kind |-> "none", s |-> <<>>]
Str(s) == [kind |-> "str", s |-> s]
Bool(b) == [kind |-> "bool", s |-> <<IF b THEN "True" ELSE "False">>]
IntVal(n) == [kind |-> "int", s |-> <<n>>]
Uuid(s) == [kind |-> "uuid", s |-> s]
ListVal(xs) == [kind |-> "list", s |-> xs]

IsStr(v) == v.kind = "str"

Keys ==
  {"email", "nickname", "first_name", "last_name", "bio",
   "profile_picture_url", "linkedin_profile_url", "github_profile_url",
   "password", "id", "role", "is_professional",
   "items", "total", "page", "size"}

Empty == [k \in Keys |-> Absent]

(* Python truth value of a raw value: None and "" are falsy.               *)
Truthy(v) ==
  CASE v.kind = "none" -> FALSE
    [] v.kind = "str" -> v.s # <<>>
    [] v.kind = "bool" -> v.s = <<"True">>
    [] v.kind = "int" -> v.s # <<0>>
    [] v.kind = "uuid" -> TRUE
    [] v.kind = "list" -> v.s # <<>>
    [] OTHER -> FALSE

(* values.values() of the raw dict: the values of the keys it holds.       *)
RawValues(values) == {values[k] : k \in {x \in Keys : values[x] # Absent}}

-----------------------------------------------------------------------------
(* Character classes.  "U+00E9" is e-acute (a non-ASCII lower-case letter),*)
(* "U+1F600" an emoji, " " a space.                                        *)

isupper(c) == c \in {"A"}
islower(c) == c \in {"a", "U+00E9"}
isdigit(c) == c \in {"1"}

(* Representatives of the string "!@#$%^&*()_+-=[]{}|;:'\",.<>?/~`".       *)
special_characters == {"!", "?", "_", "-"}

(* The regex class \w (Unicode-aware): letters and digits of any script,   *)
(* and the underscore.                                                     *)
IsWord(c) == c \in {"A", "a", "1", "_", "U+00E9"}

(* [\w-]                                                                   *)
NicknameClass(c) == IsWord(c) \/ c = "-"

-----------------------------------------------------------------------------
(* What a validator hands back: the value, or a raised ValueError.         *)

Return(v) == [raised |-> FALSE, msg |-> "", val |-> v]
Raise(m) == [raised |-> TRUE, msg |-> m, val |-> Absent]

Error(f, k, d) == [field |-> f, kind |-> k, detail |-> d]

Pass(v) == [errs |-> <<>>, val |-> v]
Fail(f, k, d) == [errs |-> <<Error(f, k, d)>>, val |-> Absent]


-----------------------------------------------------------------------------
(* urllib.parse.urlparse, as far as validate_url reads its result: the     *)
(* scheme and the netloc.  A URL is a sequence of tokens; ":" and "/" are  *)
(* single characters, every other token is a run of scheme characters      *)
(* that starts with an ASCII letter.                                       *)

UrlTokens == {"http", "https", "ftp", ":", "/", "example.com"}

(* str.lower() of a token.                                                 *)
Lower(tok) ==
  CASE tok = "HTTP" -> "http"
    [] tok = "EXAMPLE.COM" -> "example.com"
    [] OTHER -> tok

IsSchemeRun(tok) == tok \notin {":", "/", "@"}

(* url.find(c), 1-based; 0 when c does not occur at or after from.         *)
Find(url, c, from) ==
  LET hits == {i \in from..Len(url) : url[i] = c}
  IN IF hits = {} THEN 0 ELSE CHOOSE i \in hits : \A j \in hits : i <= j

urlparse(url) ==
  LET i == Find(url, ":", 1)
      hasScheme == /\ i > 1
                   /\ IsSchemeRun(url[1])
                   /\ \A j \in 1..(i - 1) : IsSchemeRun(url[j])
      scheme == IF hasScheme THEN [j \in 1..(i - 1) |-> Lower(url[j])] ELSE <<>>
      rest == IF hasScheme THEN SubSeq(url, i + 1, Len(url)) ELSE url
      slashes == Len(rest) >= 2 /\ rest[1] = "/" /\ rest[2] = "/"
      stop == Find(rest, "/", 3)
      netloc == IF ~slashes THEN <<>>
                ELSE IF stop = 0 THEN SubSeq(rest, 3, Len(rest))
                ELSE SubSeq(rest, 3, stop - 1)
  IN [scheme |-> scheme, netloc |-> netloc]

validate_url_geturl(url) ==
  IF url = None THEN Return(url)
  ELSE LET parsed == urlparse(url.s)
       IN IF parsed.scheme \notin {<<"http">>, <<"https">>} \/ parsed.netloc = <<>>
          THEN Raise("Invalid URL: must use http or https and include a valid domain")
          ELSE Return(Str([j \in 1..Len(url.s) |-> Lower(url.s[j])]))

validate_url_and(url) ==
  IF url = None THEN Return(url)
  ELSE LET parsed == urlparse(url.s)
       IN IF parsed.scheme \notin {<<"http">>, <<"https">>} /\ parsed.netloc = <<>>
          THEN Raise("Invalid URL: must use http or https and include a valid domain")
          ELSE Return(url)

validate_url(url) ==
  IF url = None THEN Return(url)
  ELSE LET parsed == urlparse(url.s)
       IN IF parsed.scheme \notin {<<"http">>, <<"https">>} \/ parsed.netloc = <<>>
          THEN Raise("Invalid URL: must use http or https and include a valid domain")
          ELSE Return(url)

-----------------------------------------------------------------------------
(* EmailStr: the address must hold exactly one "@", something before it,   *)
(* and after it a domain with a period; the validated value is the         *)
(* normalised address (the domain in lower case).                          *)

EmailTokens == {"john.doe", "@", "example.com", "EXAMPLE.COM", "bad-email"}

HasPeriod(tok) == tok \in {"john.doe", "example.com", "EXAMPLE.COM"}

validate_email(email) ==
  LET ats == {i \in 1..Len(email) : email[i] = "@"}
      at == Find(email, "@", 1)
  IN IF Cardinality(ats) # 1 \/ at = 1 \/ at = Len(email)
        \/ ~\E j \in (at + 1)..Len(email) : HasPeriod(email[j])
     THEN Raise("value is not a valid email address")
     ELSE Return([j \in 1..Len(email) |->
                    IF j > at THEN Lower(email[j]) ELSE email[j]])

-----------------------------------------------------------------------------
(* UserCreate.password_complexity                                          *)

IsSpecial(c) == c \in special_characters

password_complexity_upper_first(password) ==
  IF ~(\E i \in 1..Len(password) : isupper(password[i]))
  THEN Raise("Password must contain at least one uppercase letter.")
  ELSE IF Len(password) < MinPasswordLength
  THEN Raise("Password must be at least 8 characters long.")
  ELSE IF ~(\E i \in 1..Len(password) : islower(password[i]))
  THEN Raise("Password must contain at least one lowercase letter.")
  ELSE IF ~(\E i \in 1..Len(password) : isdigit(password[i]))
  THEN Raise("Password must contain at least one digit.")
  ELSE IF ~(\E i \in 1..Len(password) : IsSpecial(password[i]))
  THEN Raise("Password must contain at least one special character.")
  ELSE Return(password)

password_complexity_no_digit(password) ==
  IF Len(password) < MinPasswordLength
  THEN Raise("Password must be at least 8 characters long.")
  ELSE IF ~(\E i \in 1..Len(password) : isupper(password[i]))
  THEN Raise("Password must contain at least one uppercase letter.")
  ELSE IF ~(\E i \in 1..Len(password) : islower(password[i]))
  THEN Raise("Password must contain at least one lowercase letter.")
  ELSE IF ~(\E i \in 1..Len(password) : IsSpecial(password[i]))
  THEN Raise("Password must contain at least one special character.")
  ELSE Return(password)

password_complexity(password) ==
  IF Len(password) < MinPasswordLength
  THEN Raise("Password must be at least 8 characters long.")
  ELSE IF ~(\E i \in 1..Len(password) : isupper(password[i]))
  THEN Raise("Password must contain at least one uppercase letter.")
  ELSE IF ~(\E i \in 1..Len(password) : islower(password[i]))
  THEN Raise("Password must contain at least one lowercase letter.")
  ELSE IF ~(\E i \in 1..Len(password) : isdigit(password[i]))
  THEN Raise("Password must contain at least one digit.")
  ELSE IF ~(\E i \in 1..Len(password) : IsSpecial(password[i]))
  THEN Raise("Password must contain at least one special character.")
  ELSE Return(password)

-----------------------------------------------------------------------------
(* UserUpdate.check_at_least_one_value                                     *)

check_at_least_one_value_present(values) ==
  IF RawValues(values) = {}
  THEN Raise("At least one field must be provided for update")
  ELSE Return(values)

check_at_least_one_value_declared(values) ==
  IF ~\E k \in {"email", "nickname", "first_name", "last_name", "bio",
                "profile_picture_url", "linkedin_profile_url",
                "github_profile_url"} :
        values[k] # Absent /\ Truthy(values[k])
  THEN Raise("At least one field must be provided for update")
  ELSE Return(values)

check_at_least_one_value(values) ==
  IF ~\E v \in RawValues(values) : Truthy(v)
  THEN Raise("At least one field must be provided for update")
  ELSE Return(values)

-----------------------------------------------------------------------------
(* The shapes: their fields in declaration order (a subclass keeps the     *)
(* inherited fields first, in the base's order, then adds its own).        *)

UserBaseFields ==
  <<"email", "nickname", "first_name", "last_name", "bio",
    "profile_picture_url", "linkedin_profile_url", "github_profile_url">>

UserCreateFields == UserBaseFields \o <<"password">>

UserUpdateFields == UserBaseFields

UserResponseFields == UserBaseFields \o <<"id", "role", "is_professional">>

LoginRequestFields == <<"email", "password">>

UserListResponseFields == <<"items", "total", "page", "size">>

Shapes ==
  {"UserBase", "UserCreate", "UserUpdate", "UserResponse", "LoginRequest",
   "UserListResponse"}

Fields(sh) ==
  CASE sh = "UserBase" -> UserBaseFields
    [] sh = "UserCreate" -> UserCreateFields
    [] sh = "UserUpdate" -> UserUpdateFields
    [] sh = "UserResponse" -> UserResponseFields
    [] sh = "LoginRequest" -> LoginRequestFields
    [] sh = "UserListResponse" -> UserListResponseFields

FieldSet(sh) == {Fields(sh)[i] : i \in 1..Len(Fields(sh))}

(* The classes that derive from UserBase and so carry _validate_urls.      *)
UrlValidatedFields ==
  {"profile_picture_url", "linkedin_profile_url", "github_profile_url"}

UserBaseFamily == {"UserBase", "UserCreate", "UserUpdate", "UserResponse"}

(* The classes that carry the password_complexity validator.               *)
PasswordComplexityShapes_all == {"UserCreate", "UserUpdate", "LoginRequest"}

PasswordComplexityShapes == {"UserCreate"}

(* The classes that carry the check_at_least_one_value root validator.     *)
RootValidatedShapes == {"UserUpdate"}

UserRoleNames == {"ANONYMOUS", "AUTHENTICATED", "MANAGER", "ADMIN"}

UuidTokens == {"3fa85f64-5717-4562-b3fc-2c963f66afa6"}

(* LoginRequest declares its email as a plain str.                         *)
LoginEmailType_EmailStr == "EmailStr"

LoginEmailType == "str"

(* The annotation of a field: its type, whether None is allowed, whether   *)
(* the key is required, and the default otherwise.                         *)
Annotation(sh, f) ==
  CASE f = "email" /\ sh = "LoginRequest" ->
         [type |-> LoginEmailType, optional |-> FALSE, required |-> TRUE, default |-> Absent]
    [] f = "email" /\ sh = "UserUpdate" ->
         [type |-> "EmailStr", optional |-> TRUE, required |-> FALSE, default |-> None]
    [] f = "email" /\ sh \notin {"LoginRequest", "UserUpdate"} ->
         [type |-> "EmailStr", optional |-> FALSE, required |-> TRUE, default |-> Absent]
    [] f = "nickname" ->
         [type |-> "nickname", optional |-> TRUE, required |-> FALSE, default |-> None]
    [] f = "password" ->
         [type |-> "str", optional |-> FALSE, required |-> TRUE, default |-> Absent]
    [] f = "id" ->
         [type |-> "UUID", optional |-> FALSE, required |-> TRUE, default |-> Absent]
    [] f = "role" ->
         [type |-> "UserRole", optional |-> FALSE, required |-> FALSE,
          default |-> Str(<<"AUTHENTICATED">>)]
    [] f = "is_professional" ->
         [type |-> "bool", optional |-> TRUE, required |-> FALSE, default |-> Bool(FALSE)]
    [] OTHER ->
         [type |-> "str", optional |-> TRUE, required |-> FALSE, default |-> None]

(* Field(min_length=3, pattern=r'^[\w-]+$'): the length is checked first,  *)
(* the pattern only on a string that is long enough.                       *)
nickname_constraints_pattern_first(f, s) ==
  IF Len(s) < 1 \/ ~(\A i \in 1..Len(s) : NicknameClass(s[i]))
  THEN Fail(f, "InvalidNickname", "string_pattern_mismatch")
  ELSE IF Len(s) < NicknameMinLength
  THEN Fail(f, "InvalidNickname", "string_too_short")
  ELSE Pass(Str(s))

nickname_constraints(f, s) ==
  IF Len(s) < NicknameMinLength THEN Fail(f, "InvalidNickname", "string_too_short")
  ELSE IF ~(\A i \in 1..Len(s) : NicknameClass(s[i]))
  THEN Fail(f, "InvalidNickname", "string_pattern_mismatch")
  ELSE Pass(Str(s))

(* The type of a field applied to a value that is present.                 *)
TypeValidate(sh, f, v) ==
  LET a == Annotation(sh, f)
  IN IF v = None
     THEN IF a.optional THEN Pass(None) ELSE Fail(f, "InvalidType", "none")
     ELSE IF a.type = "bool"
     THEN IF v.kind = "bool" THEN Pass(v) ELSE Fail(f, "InvalidType", "bool_type")
     ELSE IF a.type = "UUID" /\ v.kind = "uuid" THEN Pass(v)
     ELSE IF v.kind # "str" THEN Fail(f, "InvalidType", "string_type")
     ELSE CASE a.type = "str" -> Pass(v)
            [] a.type = "EmailStr" ->
                 LET e == validate_email(v.s)
                 IN IF e.raised THEN Fail(f, "InvalidEmail", e.msg)
                    ELSE Pass(Str(e.val))
            [] a.type = "nickname" -> nickname_constraints(f, v.s)
            [] a.type = "UUID" ->
                 IF Len(v.s) = 1 /\ v.s[1] \in UuidTokens THEN Pass(Uuid(v.s))
                 ELSE Fail(f, "InvalidUUID", "uuid_parsing")
            [] a.type = "UserRole" ->
                 IF Len(v.s) = 1 /\ v.s[1] \in UserRoleNames THEN Pass(v)
                 ELSE Fail(f, "InvalidRole", "enum")

(* One field of the submitted mapping: the pre-validator (validate_url),   *)
(* then the type, then the validator (password_complexity); the first      *)
(* failure is the field's error.                                           *)
ValidateField(sh, f, v) ==
  LET pre == IF sh \in UserBaseFamily /\ f \in UrlValidatedFields
             THEN validate_url(v) ELSE Return(v)
  IN IF pre.raised THEN Fail(f, "InvalidURL", pre.msg)
     ELSE LET t == TypeValidate(sh, f, pre.val)
          IN IF t.errs # <<>> THEN t
             ELSE IF f = "password" /\ sh \in PasswordComplexityShapes
             THEN LET p == password_complexity(t.val.s)
                  IN IF p.raised THEN Fail(f, "WeakPassword", p.msg)
                     ELSE Pass(Str(p.val))
             ELSE t

(* A field of the shape, given the whole mapping: a missing key is an      *)
(* error when required and the default otherwise (defaults are not         *)
(* validated).                                                             *)
FieldResult(sh, values, f) ==
  IF values[f] = Absent
  THEN IF Annotation(sh, f).required
       THEN Fail(f, "MissingRequiredField", "missing")
       ELSE Pass(Annotation(sh, f).default)
  ELSE ValidateField(sh, f, values[f])

RECURSIVE CollectErrors(_, _, _)
CollectErrors(sh, values, i) ==
  IF i > Len(Fields(sh)) THEN <<>>
  ELSE FieldResult(sh, values, Fields(sh)[i]).errs \o CollectErrors(sh, values, i + 1)

FirstError(sh, values) ==
  LET all == CollectErrors(sh, values, 1)
  IN IF all = <<>> THEN <<>> ELSE <<all[1]>>

AllErrors(sh, values) == CollectErrors(sh, values, 1)

(* Construction of a shape from the raw mapping: the root pre-validator on *)
(* the raw mapping, then every declared field; keys that are no field of   *)
(* the shape are ignored.                                                  *)
model_validate_fields_first(sh, values) ==
  LET errs == AllErrors(sh, values)
      root == IF sh \in RootValidatedShapes
              THEN check_at_least_one_value(values) ELSE Return(values)
      all == IF root.raised THEN errs \o <<Error("__root__", "EmptyUpdate", root.msg)>>
             ELSE errs
  IN IF all # <<>> THEN [ok |-> FALSE, errors |-> all, value |-> Empty]
     ELSE [ok |-> TRUE, errors |-> <<>>,
           value |-> [k \in Keys |->
                        IF k \in FieldSet(sh) THEN FieldResult(sh, values, k).val
                        ELSE Absent]]

model_validate(sh, values) ==
  LET root == IF sh \in RootValidatedShapes
              THEN check_at_least_one_value(values) ELSE Return(values)
  IN IF root.raised
     THEN [ok |-> FALSE,
           errors |-> <<Error("__root__", "EmptyUpdate", root.msg)>>,
           value |-> Empty]
     ELSE LET errs == AllErrors(sh, values)
          IN IF errs # <<>> THEN [ok |-> FALSE, errors |-> errs, value |-> Empty]
             ELSE [ok |-> TRUE, errors |-> <<>>,
                   value |-> [k \in Keys |->
                                IF k \in FieldSet(sh)
                                THEN FieldResult(sh, values, k).val
                                ELSE Absent]]

-----------------------------------------------------------------------------
(* UserListResponse: items is a list of UserResponse, each constructed as  *)
(* a UserResponse; total, page and size are plain int fields with no       *)
(* constraint and no validator.                                            *)

int_field(f, v) ==
  IF v = Absent THEN Fail(f, "MissingRequiredField", "missing")
  ELSE IF v.kind = "int" THEN Pass(v)
  ELSE Fail(f, "InvalidType", "int_type")

item_results(xs) ==
  [i \in 1..Len(xs) |-> model_validate("UserResponse", xs[i])]

RECURSIVE ItemErrors(_, _)
ItemErrors(rs, i) ==
  IF i > Len(rs) THEN <<>>
  ELSE [j \in 1..Len(rs[i].errors) |->
          Error("items", rs[i].errors[j].kind, rs[i].errors[j].detail)]
         \o ItemErrors(rs, i + 1)

(* The items field from the results of constructing each item.             *)
items_of(rs) ==
  IF ItemErrors(rs, 1) # <<>>
  THEN [errs |-> ItemErrors(rs, 1), val |-> Absent]
  ELSE Pass(ListVal([i \in 1..Len(rs) |-> rs[i].value]))

items_field(v) ==
  IF v = Absent THEN Fail("items", "MissingRequiredField", "missing")
  ELSE IF v.kind # "list" THEN Fail("items", "InvalidType", "list_type")
  ELSE items_of(item_results(v.s))

(* The outcome from the four field results, in declaration order.          *)
list_result(items, total, page, size) ==
  IF items.errs \o total.errs \o page.errs \o size.errs # <<>>
  THEN [ok |-> FALSE,
        errors |-> items.errs \o total.errs \o page.errs \o size.errs,
        value |-> Empty]
  ELSE [ok |-> TRUE, errors |-> <<>>,
        value |-> [Empty EXCEPT !["items"] = items.val, !["total"] = total.val,
                                !["page"] = page.val, !["size"] = size.val]]

list_validate(values) ==
  list_result(items_field(values["items"]),
              int_field("total", values["total"]),
              int_field("page", values["page"]),
              int_field("size", values["size"]))

-----------------------------------------------------------------------------
(* The submitted mappings.                                                 *)

PasswordChars == {"A", "a", "1", "!", " "}
NicknameChars == {"a", "1", "_", "-", " ", "?", "U+00E9", "U+1F600"}

Spaces(k) == [i \in 1..k |-> " "]

ValidEmail == <<"john.doe", "@", "example.com">>
UpperEmail == <<"john.doe", "@", "EXAMPLE.COM">>
BadEmail == <<"bad-email">>
ValidPassword == <<"A", "a", "1", "!", "a", "a", "a", "a">>
ShortPassword == <<"a", "a", "a", "a", "a">>
NoCapsPassword == <<"a", "a", "a", "a", "a", "a", "1", "1", "1", "!">>
ValidNickname == <<"a", "_", "1">>
ValidUrl == <<"https", ":", "/", "/", "example.com">>
UpperUrl == <<"HTTP", ":", "/", "/", "example.com">>
FtpUrl == <<"ftp", ":", "/", "/", "example.com">>
SomeUuid == <<"3fa85f64-5717-4562-b3fc-2c963f66afa6">>
Hi == <<"a", "a">>

(* UserCreate with every other field valid and any password.               *)
PasswordSubmission ==
  \E k \in 0..MaxCore, pad \in 0..MaxPad :
    \E core \in [1..k -> PasswordChars] :
      /\ shape = "UserCreate"
      /\ raw = [Empty EXCEPT !["email"] = Str(ValidEmail),
                             !["password"] = Str(core \o Spaces(pad))]

(* UserCreate with several fields valid or invalid at once.                *)
CreateSubmission ==
  \E e \in {Absent, Str(ValidEmail), Str(UpperEmail), Str(BadEmail)},
     n \in {Absent, None, Str(ValidNickname), Str(<<"a", "?">>), Str(<<"a", " ", "a">>)},
     p \in {Absent, Str(ValidPassword), Str(ShortPassword), Str(NoCapsPassword)},
     u \in {Absent, None, Str(ValidUrl), Str(FtpUrl)},
     g \in {Absent, Str(ValidUrl), Str(UpperUrl),
            Str(<<"example.com", "/", "example.com">>)},
     i \in {Absent, Str(<<>>), Str(SomeUuid)},
     r \in {Absent, Str(<<>>), Str(<<"ADMIN">>)} :
    /\ shape = "UserCreate"
    /\ raw = [Empty EXCEPT !["email"] = e, !["nickname"] = n, !["password"] = p,
                           !["profile_picture_url"] = u, !["github_profile_url"] = g,
                           !["id"] = i, !["role"] = r]

(* UserBase with any nickname.                                             *)
NicknameSubmission ==
  /\ shape = "UserBase"
  /\ \/ raw = [Empty EXCEPT !["email"] = Str(ValidEmail), !["nickname"] = None]
     \/ \E k \in 0..MaxNickLen : \E s \in [1..k -> NicknameChars] :
          raw = [Empty EXCEPT !["email"] = Str(ValidEmail), !["nickname"] = Str(s)]

(* UserBase with any value in one of the three profile links.              *)
UrlSubmission ==
  /\ shape = "UserBase"
  /\ \E f \in {"profile_picture_url", "linkedin_profile_url", "github_profile_url"} :
       \/ raw = [Empty EXCEPT !["email"] = Str(ValidEmail), ![f] = None]
       \/ \E k \in 0..MaxUrlLen : \E s \in [1..k -> UrlTokens] :
            raw = [Empty EXCEPT !["email"] = Str(ValidEmail), ![f] = Str(s)]

(* UserBase and LoginRequest with any e-mail address.                      *)
EmailSubmission ==
  \E sh \in {"UserBase", "LoginRequest"},
     p \in {Absent, Str(<<>>), Str(ShortPassword), Str(ValidPassword)} :
    /\ shape = sh
    /\ \/ \E e \in {Absent, None} :
            raw = [Empty EXCEPT !["email"] = e, !["password"] = p]
       \/ \E k \in 0..MaxEmailLen : \E s \in [1..k -> EmailTokens] :
            raw = [Empty EXCEPT !["email"] = Str(s), !["password"] = p]

(* UserUpdate: declared fields and keys that are no field of the shape.    *)
UpdateSubmission ==
  \E e \in {Absent, Str(<<>>), Str(ValidEmail), Str(BadEmail)},
     n \in {Absent, None, Str(<<>>), Str(ValidNickname), Str(<<"a", "?">>)},
     b \in {Absent, None, Str(<<>>), Str(Hi)},
     fn \in {Absent, None},
     u \in {Absent, Str(<<>>), Str(ValidUrl), Str(FtpUrl)},
     p \in {Absent, Str(<<>>), Str(ShortPassword)},
     i \in {Absent, Str(<<>>), Str(SomeUuid)},
     r \in {Absent, Str(<<>>), Str(<<"ADMIN">>)} :
    /\ shape = "UserUpdate"
    /\ raw = [Empty EXCEPT !["email"] = e, !["nickname"] = n, !["bio"] = b,
                           !["first_name"] = fn, !["profile_picture_url"] = u,
                           !["password"] = p, !["id"] = i, !["role"] = r]

(* UserResponse: the shape that declares id, role and is_professional.     *)
ResponseSubmission ==
  \E e \in {Str(ValidEmail), Str(BadEmail)},
     n \in {Absent, Str(ValidNickname), Str(<<"a", "?">>)},
     i \in {Absent, Str(<<>>), Str(SomeUuid), Str(<<"not-a-uuid">>)},
     r \in {Absent, Str(<<>>), Str(<<"ADMIN">>), Str(<<"ROOT">>)},
     b \in {Absent, None, Bool(TRUE)} :
    /\ shape = "UserResponse"
    /\ raw = [Empty EXCEPT !["email"] = e, !["nickname"] = n, !["id"] = i,
                           !["role"] = r, !["is_professional"] = b]

(* UserListResponse: up to MaxItems items, counts from -1 to MaxCount.      *)
GoodItem ==
  [Empty EXCEPT !["email"] = Str(ValidEmail), !["nickname"] = Str(ValidNickname),
                !["id"] = Str(SomeUuid), !["role"] = Str(<<"ADMIN">>)]

BadItem == [Empty EXCEPT !["email"] = Str(BadEmail), !["id"] = Str(SomeUuid)]

ListSubmission ==
  \E n \in 0..MaxItems, total \in (-1)..MaxCount, page \in (-1)..MaxCount :
    \E xs \in [1..n -> {GoodItem, BadItem}],
       size \in {Absent, None} \cup {IntVal(k) : k \in (-1)..MaxCount} :
      /\ shape = "UserListResponse"
      /\ raw = [Empty EXCEPT !["items"] = ListVal(xs), !["total"] = IntVal(total),
                             !["page"] = IntVal(page), !["size"] = size]

-----------------------------------------------------------------------------
(* The state machine: a submitted mapping, then its construction.          *)

Init ==
  /\ \/ PasswordSubmission
     \/ CreateSubmission
     \/ NicknameSubmission
     \/ UrlSubmission
     \/ EmailSubmission
     \/ UpdateSubmission
     \/ ResponseSubmission
     \/ ListSubmission
  /\ pc = "submitted"
  /\ ok = FALSE
  /\ errors = <<>>
  /\ value = Empty

Construct(sh) ==
  /\ pc = "submitted"
  /\ shape = sh
  /\ LET r == model_validate(sh, raw)
     IN /\ ok' = r.ok
        /\ errors' = r.errors
        /\ value' = r.value
  /\ pc' = "done"
  /\ UNCHANGED <<shape, raw>>

ConstructUserBase == Construct("UserBase")
ConstructUserCreate == Construct("UserCreate")
ConstructUserUpdate == Construct("UserUpdate")
ConstructUserResponse == Construct("UserResponse")
ConstructLoginRequest == Construct("LoginRequest")

(* The construction's result becomes the state's outcome.                  *)
Outcome(r) ==
  /\ ok' = r.ok
  /\ errors' = r.errors
  /\ value' = r.value

ConstructUserListResponse ==
  /\ pc = "submitted"
  /\ shape = "UserListResponse"
  /\ Outcome(list_validate(raw))
  /\ pc' = "done"
  /\ UNCHANGED <<shape, raw>>

Next ==
  \/ ConstructUserBase
  \/ ConstructUserCreate
  \/ ConstructUserUpdate
  \/ ConstructUserResponse
  \/ ConstructLoginRequest
  \/ ConstructUserListResponse

Spec == Init /\ [][Next]_vars

TypeOK ==
  /\ shape \in Shapes
  /\ pc \in {"submitted", "done"}
  /\ ok \in BOOLEAN
  /\ (pc = "done" => (ok <=> errors = <<>>))

-----------------------------------------------------------------------------
(* Reading the outcome of a construction.                                  *)

ErrorsOn(f) == {i \in 1..Len(errors) : errors[i].field = f}
NoErrorOn(f) == ErrorsOn(f) = {}
RootFailed == \E i \in 1..Len(errors) : errors[i].kind = "EmptyUpdate"
OnlyPasswordErrors == \A i \in 1..Len(errors) : errors[i].field = "password"

(* The five stated conditions of a password, by name.                      *)
Conditions == <<"length", "uppercase", "lowercase", "digit", "special">>

Unmet(s, c) ==
  CASE c = "length" -> Len(s) < 8
    [] c = "uppercase" -> \A i \in 1..Len(s) : s[i] # "A"
    [] c = "lowercase" -> \A i \in 1..Len(s) : s[i] \notin {"a", "U+00E9"}
    [] c = "digit" -> \A i \in 1..Len(s) : s[i] # "1"
    [] c = "special" -> \A i \in 1..Len(s) : s[i] \notin {"!", "?", "_", "-"}

UnmetConditions(s) == {c \in {Conditions[i] : i \in 1..Len(Conditions)} : Unmet(s, c)}

(* The condition a password_complexity message speaks of.                  *)
ConditionOf(msg) ==
  CASE msg = "Password must be at least 8 characters long." -> "length"
    [] msg = "Password must contain at least one uppercase letter." -> "uppercase"
    [] msg = "Password must contain at least one lowercase letter." -> "lowercase"
    [] msg = "Password must contain at least one digit." -> "digit"
    [] msg = "Password must contain at least one special character." -> "special"
    [] OTHER -> "none"

(* C1: a UserCreate whose other fields are valid is constructed if and     *)
(* only if its password meets all five conditions at once; a password      *)
(* missing any of them is rejected with a WeakPassword error.              *)
C1_PasswordAcceptedIffAllFive ==
  (pc = "done" /\ shape = "UserCreate" /\ IsStr(raw["password"]) /\ OnlyPasswordErrors)
    => /\ ok <=> UnmetConditions(raw["password"].s) = {}
       /\ ~ok => /\ Len(errors) = 1
                 /\ errors[1].kind = "WeakPassword"

C1_Witness ==
  /\ pc = "done" /\ shape = "UserCreate" /\ ok
  /\ IsStr(raw["password"]) /\ Len(raw["password"].s) = 8

(* C2 as stated: a WeakPassword error carries every unmet condition.       *)
C2_CarriesEveryUnmetCondition ==
  (pc = "done" /\ shape = "UserCreate" /\ IsStr(raw["password"]))
    => \A i \in ErrorsOn("password") :
         errors[i].kind = "WeakPassword"
           => {ConditionOf(errors[i].detail)} = UnmetConditions(raw["password"].s)

(* C2 as amended: the rule stops at the first unmet condition.  A          *)
(* WeakPassword error carries exactly one condition, the first unmet one   *)
(* in the order length, uppercase, lowercase, digit, special, and there is *)
(* one such error whenever some condition is unmet.                        *)
C2_CarriesFirstUnmetConditionOnly ==
  (pc = "done" /\ shape = "UserCreate" /\ IsStr(raw["password"]))
    => LET s == raw["password"].s
           unmet == {j \in 1..Len(Conditions) : Unmet(s, Conditions[j])}
       IN IF unmet = {} THEN NoErrorOn("password")
          ELSE /\ Cardinality(ErrorsOn("password")) = 1
               /\ \A i \in ErrorsOn("password") :
                    /\ errors[i].kind = "WeakPassword"
                    /\ \E j \in unmet :
                         /\ \A k \in unmet : j <= k
                         /\ ConditionOf(errors[i].detail) = Conditions[j]

C2_Witness ==
  /\ pc = "done" /\ shape = "UserCreate"
  /\ raw["password"] = Str(<<"a", "a">>)
  /\ \E i \in ErrorsOn("password") :
       errors[i].detail = "Password must be at least 8 characters long."

(* A profile link that parses to scheme http or https with a non-empty     *)
(* authority: (http|https in any case) ":" "/" "/" and then something that *)
(* does not end the authority.                                             *)
WellFormedUrl(u) ==
  /\ Len(u) >= 5
  /\ u[1] \in {"http", "https", "HTTP"}
  /\ u[2] = ":" /\ u[3] = "/" /\ u[4] = "/"
  /\ u[5] # "/"

ProfileLinks == {"profile_picture_url", "linkedin_profile_url", "github_profile_url"}

(* C3: in each of the three profile links None is accepted, a string is    *)
(* accepted if and only if it parses to scheme http or https and a         *)
(* non-empty authority, and every other string is an InvalidURL error.     *)
C3_UrlAcceptedIffHttpAndHost ==
  (pc = "done" /\ shape \in {"UserBase", "UserCreate", "UserUpdate", "UserResponse"}
     /\ ~RootFailed)
    => \A f \in ProfileLinks :
         /\ raw[f] = None => NoErrorOn(f)
         /\ IsStr(raw[f]) =>
              /\ NoErrorOn(f) <=> WellFormedUrl(raw[f].s)
              /\ NoErrorOn(f) <=>
                   /\ urlparse(raw[f].s).scheme \in {<<"http">>, <<"https">>}
                   /\ urlparse(raw[f].s).netloc # <<>>
              /\ \A i \in ErrorsOn(f) : errors[i].kind = "InvalidURL"
              /\ Cardinality(ErrorsOn(f)) <= 1

C3_Witness ==
  /\ pc = "done" /\ shape = "UserBase"
  /\ raw["github_profile_url"] = Str(<<"http", ":", "/", "example.com">>)
  /\ ~ok /\ errors[1].kind = "InvalidURL"

(* C4 as stated: a nickname is valid if and only if it has at least three  *)
(* characters, all of them in the ASCII set [A-Za-z0-9_-]; None is valid,  *)
(* the empty string is not.                                                *)
C4_NicknameAcceptedIffAsciiCharset ==
  (pc = "done" /\ shape \in {"UserBase", "UserCreate", "UserUpdate", "UserResponse"}
     /\ ~RootFailed)
    => /\ raw["nickname"] = None => NoErrorOn("nickname")
       /\ IsStr(raw["nickname"]) =>
            (NoErrorOn("nickname") <=>
               /\ Len(raw["nickname"].s) >= 3
               /\ \A i \in 1..Len(raw["nickname"].s) :
                    raw["nickname"].s[i] \in {"A", "a", "1", "_", "-"})

(* C5: a UserUpdate passes the non-empty rule if and only if some value of *)
(* the raw mapping is truthy; otherwise the outcome is EmptyUpdate; the    *)
(* mapping {"bio": "hi"} is constructed.                                   *)
C5_UpdatePassesIffSomeValueTruthy ==
  (pc = "done" /\ shape = "UserUpdate")
    => /\ ~RootFailed <=>
            \E k \in Keys : raw[k].kind = "str" /\ Len(raw[k].s) > 0
       /\ RootFailed => errors[1].field = "__root__"
       /\ raw = [Empty EXCEPT !["bio"] = Str(Hi)] => ok

C5_Witness ==
  /\ pc = "done" /\ shape = "UserUpdate"
  /\ raw = [Empty EXCEPT !["bio"] = Str(Hi)]
  /\ ok

-----------------------------------------------------------------------------
(* Which submitted fields break their rule, stated on the raw mapping.     *)

WellFormedEmails == {ValidEmail, UpperEmail}

NicknameBroken(v) ==
  IsStr(v) /\ (Len(v.s) < 3
               \/ \E i \in 1..Len(v.s) : v.s[i] \in {" ", "?", "U+1F600"})

LinkBroken(v) == IsStr(v) /\ ~WellFormedUrl(v.s)

(* A field of a creation request.                                          *)
CreateFieldBroken(f) ==
  CASE f = "email" -> raw[f] = Absent \/ raw[f] = None
                        \/ (IsStr(raw[f]) /\ raw[f].s \notin WellFormedEmails)
    [] f = "nickname" -> NicknameBroken(raw[f])
    [] f \in ProfileLinks -> LinkBroken(raw[f])
    [] f = "password" -> raw[f] = Absent \/ raw[f] = None
                           \/ (IsStr(raw[f]) /\ UnmetConditions(raw[f].s) # {})
    [] OTHER -> FALSE

(* A field of an update request: the e-mail address is optional.           *)
UpdateFieldBroken(f) ==
  CASE f = "email" -> IsStr(raw[f]) /\ raw[f].s \notin WellFormedEmails
    [] f = "nickname" -> NicknameBroken(raw[f])
    [] f \in ProfileLinks -> LinkBroken(raw[f])
    [] OTHER -> FALSE

DeclarationOrder ==
  <<"email", "nickname", "first_name", "last_name", "bio", "profile_picture_url",
    "linkedin_profile_url", "github_profile_url", "password">>

Position(f) == CHOOSE i \in 1..Len(DeclarationOrder) : DeclarationOrder[i] = f

(* C6: a creation request yields one violation for every field that breaks *)
(* its rule, none for the others, in field declaration order;              *)
(* {email: "bad-email", password: "short"} yields exactly InvalidEmail     *)
(* and then WeakPassword.                                                  *)
C6_AllViolationsInDeclarationOrder ==
  (pc = "done" /\ shape = "UserCreate")
    => /\ \A i \in 1..Len(DeclarationOrder) :
            Cardinality(ErrorsOn(DeclarationOrder[i]))
              = IF CreateFieldBroken(DeclarationOrder[i]) THEN 1 ELSE 0
       /\ \A i, j \in 1..Len(errors) :
            i < j => Position(errors[i].field) < Position(errors[j].field)
       /\ raw = [Empty EXCEPT !["email"] = Str(BadEmail),
                              !["password"] = Str(ShortPassword)]
            => /\ Len(errors) = 2
               /\ errors[1].kind = "InvalidEmail"
               /\ errors[2].kind = "WeakPassword"

C6_Witness ==
  /\ pc = "done" /\ shape = "UserCreate"
  /\ raw = [Empty EXCEPT !["email"] = Str(BadEmail), !["password"] = Str(ShortPassword)]
  /\ Len(errors) = 2

SomeValueTruthy == \E k \in Keys : raw[k].kind = "str" /\ Len(raw[k].s) > 0

(* C7: in a UserUpdate the non-empty check runs on the raw mapping before  *)
(* any field rule.  When it fails the outcome is EmptyUpdate alone         *)
(* ({"nickname": ""} yields EmptyUpdate, not InvalidNickname); when it     *)
(* passes, the e-mail, nickname and profile-link rules are applied to the  *)
(* submitted fields.                                                       *)
C7_EmptyUpdateBeforeFieldRules ==
  (pc = "done" /\ shape = "UserUpdate")
    => /\ ~SomeValueTruthy
            => /\ Len(errors) = 1
               /\ errors[1].kind = "EmptyUpdate"
       /\ SomeValueTruthy
            => /\ \A i \in 1..Len(errors) : errors[i].kind # "EmptyUpdate"
               /\ \A f \in {"email", "nickname"} \cup ProfileLinks :
                    ErrorsOn(f) # {} <=> UpdateFieldBroken(f)

C7_Witness ==
  /\ pc = "done" /\ shape = "UserUpdate"
  /\ raw = [Empty EXCEPT !["nickname"] = Str(<<>>)]
  /\ Len(errors) = 1 /\ errors[1].kind = "EmptyUpdate"

NicknameTooShort(s) == Len(s) < 3
NicknameOffCharset(s) == \E i \in 1..Len(s) : s[i] \in {" ", "?", "U+1F600"}

NicknameDetails == {errors[i].detail : i \in ErrorsOn("nickname")}

(* C8 as stated: when a nickname is too short and has a character outside  *)
(* the charset, the report holds the length failure and the charset        *)
(* failure.                                                                *)
C8_BothNicknameFailuresReported ==
  (pc = "done" /\ shape \in {"UserBase", "UserCreate", "UserUpdate", "UserResponse"}
     /\ ~RootFailed /\ IsStr(raw["nickname"])
     /\ NicknameTooShort(raw["nickname"].s) /\ NicknameOffCharset(raw["nickname"].s))
    => {"string_too_short", "string_pattern_mismatch"} \subseteq NicknameDetails

(* C8 as amended: a nickname yields at most one InvalidNickname violation, *)
(* for the first failed constraint: the length failure when it is too      *)
(* short (whatever its characters), the charset failure only when it is    *)
(* long enough.                                                            *)
C8_FirstNicknameFailureOnly ==
  (pc = "done" /\ shape \in {"UserBase", "UserCreate", "UserUpdate", "UserResponse"}
     /\ ~RootFailed /\ IsStr(raw["nickname"]))
    => /\ Cardinality(ErrorsOn("nickname")) <= 1
       /\ \A i \in ErrorsOn("nickname") : errors[i].kind = "InvalidNickname"
       /\ NicknameDetails =
            IF NicknameTooShort(raw["nickname"].s) THEN {"string_too_short"}
            ELSE IF NicknameOffCharset(raw["nickname"].s)
            THEN {"string_pattern_mismatch"}
            ELSE {}

C8_Witness ==
  /\ pc = "done" /\ shape = "UserBase"
  /\ raw["nickname"] = Str(<<"a", "?">>)
  /\ NicknameDetails = {"string_too_short"}

(* C9: the password-complexity rule runs only for UserCreate: no other     *)
(* construction fails with WeakPassword, and a LoginRequest or UserUpdate  *)
(* is never rejected on account of the password it was given.              *)
C9_WeakPasswordOnlyOnCreate ==
  (pc = "done" /\ shape # "UserCreate")
    => /\ \A i \in 1..Len(errors) : errors[i].kind # "WeakPassword"
       /\ IsStr(raw["password"]) => NoErrorOn("password")

C9_Witness ==
  /\ pc = "done" /\ shape = "LoginRequest"
  /\ raw["password"] = Str(ShortPassword)
  /\ IsStr(raw["email"])
  /\ ok

SuppliedValues == {None, Str(<<>>), Str(SomeUuid), Str(<<"ADMIN">>)}

(* C10: id and role are never accepted from creation or update input: two  *)
(* raw mappings that differ only in the values supplied under id and role  *)
(* have the same outcome, and the constructed value holds no id and no     *)
(* role; only UserResponse declares them.                                  *)
C10_ServerAssignedFieldsIgnored ==
  (pc = "done" /\ shape \in {"UserCreate", "UserUpdate"}
     /\ raw["id"] # Absent /\ raw["role"] # Absent)
    => /\ \A i, r \in SuppliedValues :
            model_validate(shape, [raw EXCEPT !["id"] = i, !["role"] = r])
              = [ok |-> ok, errors |-> errors, value |-> value]
       /\ value["id"] = Absent /\ value["role"] = Absent
       /\ \A sh \in Shapes : "id" \in FieldSet(sh) \/ "role" \in FieldSet(sh)
                               => sh = "UserResponse"

-----------------------------------------------------------------------------
(* C11: every UserListResponse that is constructed has no more items than  *)
(* its size, a total that is not negative and a page of at least 1.        *)
C11_ListingPageInvariant ==
  (pc = "done" /\ shape = "UserListResponse" /\ ok)
    => /\ Len(value["items"].s) <= value["size"].s[1]
       /\ value["total"].s[1] >= 0
       /\ value["page"].s[1] >= 1

(* C12: a LoginRequest applies no e-mail syntax rule and no password rule: *)
(* every pair of strings is accepted, also an address UserBase rejects,    *)
(* and the value holds exactly the submitted email and password; a         *)
(* mandatory field that is not supplied (absent, or None) is rejected.     *)
C12_LoginAcceptsAnyStrings ==
  (pc = "done" /\ shape = "LoginRequest")
    => /\ ok <=> (IsStr(raw["email"]) /\ IsStr(raw["password"]))
       /\ ok => /\ value["email"] = raw["email"]
                /\ value["password"] = raw["password"]
       /\ \A f \in {"email", "password"} :
            raw[f] = Absent
              => \E i \in ErrorsOn(f) : errors[i].kind = "MissingRequiredField"

C12_Witness ==
  /\ pc = "done" /\ shape = "LoginRequest"
  /\ raw["email"] = Str(BadEmail)
  /\ raw["password"] = Str(ShortPassword)
  /\ ok
  /\ value["email"] = Str(BadEmail)

RecordShapes == {"UserBase", "UserCreate", "UserUpdate", "UserResponse", "LoginRequest"}

Revalidated == model_validate(shape, value)

(* C13 as stated: a constructed record holds every submitted value         *)
(* unchanged and None for every field not submitted, and constructing the  *)
(* shape again from the record's field values gives the same record.       *)
C13_ValuePreserving ==
  (pc = "done" /\ ok /\ shape \in RecordShapes)
    => /\ \A k \in FieldSet(shape) :
            value[k] = IF raw[k] = Absent THEN None ELSE raw[k]
       /\ Revalidated = [ok |-> TRUE, errors |-> <<>>, value |-> value]

(* The address with the part after "@" in lower case.                      *)
DomainLowered(e) ==
  [j \in 1..Len(e) |->
     IF (\E i \in 1..(j - 1) : e[i] = "@") /\ e[j] = "EXAMPLE.COM"
     THEN "example.com" ELSE e[j]]

DeclaredDefault(k) ==
  CASE k = "role" -> Str(<<"AUTHENTICATED">>)
    [] k = "is_professional" -> Bool(FALSE)
    [] OTHER -> None

(* C13 as amended: a constructed record holds every submitted value        *)
(* unchanged, except that an EmailStr address is held normalised (its      *)
(* domain in lower case) and an id string is held as a UUID; a field not   *)
(* submitted holds its declared default (None; AUTHENTICATED for role,     *)
(* False for is_professional).  Constructing the shape again from the      *)
(* record's field values gives the same record, except for a UserUpdate    *)
(* none of whose fields is truthy, which is then refused as EmptyUpdate.   *)
C13_ValuePreservingUpToNormalisation ==
  (pc = "done" /\ ok /\ shape \in RecordShapes)
    => /\ \A k \in FieldSet(shape) :
            value[k] =
              CASE raw[k] = Absent -> DeclaredDefault(k)
                [] raw[k] # Absent /\ k = "email" /\ shape # "LoginRequest"
                     /\ IsStr(raw[k]) -> Str(DomainLowered(raw[k].s))
                [] raw[k] # Absent /\ k = "id" /\ IsStr(raw[k]) -> Uuid(raw[k].s)
                [] OTHER -> raw[k]
       /\ IF shape = "UserUpdate"
             /\ \A k \in FieldSet(shape) :
                  value[k] = None \/ value[k] = Str(<<>>)
          THEN /\ ~Revalidated.ok
               /\ Revalidated.errors[1].kind = "EmptyUpdate"
          ELSE Revalidated = [ok |-> TRUE, errors |-> <<>>, value |-> value]

C13_Witness ==
  /\ pc = "done" /\ ok /\ shape = "UserBase"
  /\ raw["email"] = Str(UpperEmail)
  /\ value["email"] = Str(ValidEmail)
  /\ Revalidated.ok

-----------------------------------------------------------------------------
UndeclaredKeys == Keys \ FieldSet("UserUpdate")

(* The raw mapping of a UserUpdate holds a truthy value, and every truthy  *)
(* value it holds sits under a key that is no field of UserUpdate.         *)
OnlyTruthyUnderUndeclaredKey ==
  /\ \E k \in UndeclaredKeys : raw[k] # Absent /\ Truthy(raw[k])
  /\ \A k \in FieldSet("UserUpdate") : raw[k] \in {Absent, None, Str(<<>>)}

(* C14 as stated: a UserUpdate mapping whose only truthy value sits under  *)
(* an undeclared key passes the non-empty check and is constructed, with   *)
(* every declared field None.                                              *)
C14_UndeclaredKeyYieldsNoOpUpdate ==
  (pc = "done" /\ shape = "UserUpdate" /\ OnlyTruthyUnderUndeclaredKey)
    => /\ ~RootFailed
       /\ ok
       /\ \A k \in FieldSet("UserUpdate") : value[k] = None

(* C14 as amended: such a mapping passes the non-empty check.  When every  *)
(* declared field is absent or None the UserUpdate is constructed with     *)
(* every declared field None.  A declared field submitted as "" is still   *)
(* put to its field rule: an empty e-mail, nickname or profile link is     *)
(* refused with that field's violation, and an empty first name, last name *)
(* or bio is held as "" in the constructed value.                          *)
C14_UndeclaredKeyPassesCheck ==
  (pc = "done" /\ shape = "UserUpdate" /\ OnlyTruthyUnderUndeclaredKey)
    => /\ ~RootFailed
       /\ (\A k \in FieldSet("UserUpdate") : raw[k] \in {Absent, None})
            => /\ ok
               /\ \A k \in FieldSet("UserUpdate") : value[k] = None
       /\ \A k \in {"email", "nickname"} \cup UrlValidatedFields :
            raw[k] = Str(<<>>) => ~ok /\ ErrorsOn(k) # {}
       /\ ok <=> \A k \in {"email", "nickname"} \cup UrlValidatedFields :
                   raw[k] # Str(<<>>)
       /\ ok => \A k \in FieldSet("UserUpdate") :
                  value[k] = IF raw[k] = Absent THEN None ELSE raw[k]

C14_Witness ==
  /\ pc = "done" /\ shape = "UserUpdate"
  /\ raw = [Empty EXCEPT !["role"] = Str(<<"ADMIN">>)]
  /\ ~RootFailed
  /\ ok
  /\ \A k \in FieldSet("UserUpdate") : value[k] = None

=============================================================================
